---- MODULE Spec2Model ----
(***************************************************************************)
(* A model of the respoke client session layer:                            *)
(*   - respoke.LocalMedia and the process-wide stream cache                *)
(*     (respoke.streams), with the media engine (getUserMedia) and the     *)
(*     desktop source chooser as the environment;                          *)
(*   - brightstream.User's active-call collection (addCall / removeCall);  *)
(*   - brightstream.Endpoint.call and User.getCall, with the Call (its     *)
(*     states and its "hangup" notification) as the environment;           *)
(*   - brightstream.Endpoint.getDirectConnection, with the                 *)
(*     DirectConnection and its "close" notification as the environment;   *)
(*   - brightstream.Presentable.setPresence and Endpoint.resolvePresence.  *)
(***************************************************************************)
EXTENDS Integers, Sequences, FiniteSets, TLC

\* ------------------------------------------------------------------ bounds
NumInst == 2       \* LocalMedia instances
MaxStarts == 2     \* start() calls per instance
NumSources == 1    \* distinct source ids the desktop chooser can return

Inst == 1..NumInst
SourceIds == 1..NumSources

\* ------------------------------------------------------------------ LocalMedia state
VARIABLES
    platform,        \* which screen-share integration the page has
    useFakeMedia,    \* respoke.useFakeMedia
    cons,            \* heap of constraints objects, by object id
    temporary,       \* that.temporary
    constraints,     \* that.constraints: an object id of cons, 0 when absent
    stream,          \* that.stream: a stream handle, 0 when null
    deferred,        \* state of the start deferred
    rejectReason,    \* the message of the Error the deferred was rejected with
    allowTimer,      \* id of the timer last armed by requestMedia, 0 initially
    armedTimers,     \* ids of the timers armed and neither fired nor cleared
    pendingChoose,   \* chooseDesktopMedia callbacks not yet delivered
    pendingGUM,      \* getUserMedia requests not yet completed
    mediaStreams,    \* the MediaStream objects the engine has delivered
    respokeStreams,  \* respoke.streams, the global cache
    nStart,          \* history: start() calls made
    gumCalls,        \* history: getUserMedia calls issued
    allowFired,      \* history: "allow" notifications fired
    stopFired,       \* history: "stop" notifications fired
    stoppedInFlight  \* history: stop() was called while a request was pending

mediaVars == <<platform, useFakeMedia, cons, temporary, constraints, stream,
               deferred, rejectReason, allowTimer, armedTimers, pendingChoose,
               pendingGUM, mediaStreams, respokeStreams, nStart, gumCalls,
               allowFired, stopFired, stoppedInFlight>>

\* ------------------------------------------------------------------ User state
NumCalls == 3      \* Call / DirectConnection objects handed to the User
NumIds == 2        \* distinct call ids

CallObjs == 1..NumCalls
Ids == 1..NumIds

VARIABLES
    callId,          \* the id of each call object
    calls,           \* the User's calls array
    userListeners,   \* the event names the User has listeners for
    lastOp           \* history: the last addCall / removeCall and what it did

userVars == <<callId, calls, userListeners, lastOp>>

\* ------------------------------------------------------------------ Endpoint.call state
NumEndpoints == 2  \* Endpoints that have an id; Endpoint 0 has none
MaxHangups == 2    \* "hangup" notifications one call fires
TerminalState == 6 \* getState() values from here on are "ended or media error"

EndpointIds == 1..NumEndpoints
Endpoints == {0} \cup EndpointIds
CallStates == {0, TerminalState - 1, TerminalState, TerminalState + 1}

VARIABLES
    constructed,     \* the call objects brightstream.Call has constructed
    callRemote,      \* call.remoteEndpoint of each constructed call, by Endpoint id
    callState,       \* call.getState() of each call
    hangupListeners, \* the calls whose hangupListener is registered
    hangups,         \* history: how often each call has fired "hangup"
    listenerRuns,    \* history: how often each call's hangupListener has run
    lastCall         \* history: the last Endpoint.call / getCall and its result

callVars == <<constructed, callRemote, callState, hangupListeners, hangups,
              listenerRuns, lastCall>>

\* ------------------------------------------------------------------ getDirectConnection state
MaxDCs == 3        \* DirectConnection objects getDirectConnection constructs
MaxCloses == 2     \* "close" notifications one DirectConnection fires

DCs == 1..MaxDCs

VARIABLES
    directConnection, \* that.directConnection of each Endpoint, 0 when unset
    dcMade,           \* the DirectConnection objects constructed so far: 1..dcMade
    dcOwner,          \* the Endpoint that constructed each DirectConnection
    closeListeners,   \* the DirectConnections whose close listener is registered
    closes,           \* history: how often each DirectConnection has fired "close"
    closeRuns,        \* history: how often each close listener has run
    lastDC            \* history: the last getDirectConnection and what it did

dcVars == <<directConnection, dcMade, dcOwner, closeListeners, closes, closeRuns,
            lastDC>>

\* ------------------------------------------------------------------ Presentable state
MaxSets == 3       \* setPresence calls on the Presentable

\* the connection ids and presence values handed to setPresence; "" stands
\* for a parameter left out
ConnectionIds == {"local", "c1"}
PresenceValues == {"chat", "available", "away", "dnd", "xa", "unavailable",
                   "busy", "idle"}

VARIABLES
    hasResolver,     \* typeof that.resolvePresence === 'function': an Endpoint
    sessions,        \* the sessions of the Presentable, in the order of their keys
    presence,        \* the presence of the Presentable
    presenceLog,     \* history: the params of every setPresence call
    presenceFired    \* history: the value of every "presence" notification

presenceVars == <<hasResolver, sessions, presence, presenceLog, presenceFired>>

\* ------------------------------------------------------------------ Endpoint.sendSignal state
MaxSignals == 2    \* sendSignal and sendMessage calls made

VARIABLES
    promises,        \* the promises returned to the callers, in call order
    transport        \* the requests handed to the signaling channel, in order

signalVars == <<promises, transport>>

\* ------------------------------------------------------------------ LocalMedia tracks state
MaxMutes == 2      \* "mute" notifications fired
MaxParses == 1     \* setSDP and setConstraints calls made

VARIABLES
    sdpHasAudio,     \* var sdpHasAudio of each instance
    sdpHasVideo,     \* var sdpHasVideo of each instance
    lastParsed,      \* history: what the last setSDP or setConstraints parsed
    nParses,         \* history: setSDP and setConstraints calls made
    muteFired,       \* history: "mute" notifications fired
    lastMute         \* history: the last mute or unmute call and its outcome

trackVars == <<sdpHasAudio, sdpHasVideo, lastParsed, nParses, muteFired, lastMute>>

\* ------------------------------------------------------------------ signaling callbacks, User.setPresence state
MaxInvoked == 2    \* signaling callbacks invoked

VARIABLES
    invoked,         \* history: the signaling callbacks invoked, in order
    handlers         \* history: the onSuccess and onError handlers of
                     \* User.setPresence that ran, in order

callbackVars == <<invoked, handlers>>

\* ------------------------------------------------------------------ webrtc.SignalingChannel state
MaxChannelCalls == 4   \* open, close and send calls made on the channel

VARIABLES
    state,           \* var state of the SignalingChannel
    channelCalls     \* history: the calls made on the channel, in order

channelVars == <<state, channelCalls>>

restVars == <<callbackVars, channelVars>>
otherVars == <<signalVars, trackVars, restVars>>
nonMediaVars == <<userVars, callVars, dcVars, presenceVars, otherVars>>
nonUserVars == <<mediaVars, callVars, dcVars, presenceVars, otherVars>>
nonCallVars == <<mediaVars, dcVars, presenceVars, otherVars>>
nonDCVars == <<mediaVars, callVars, presenceVars, otherVars>>
nonPresenceVars == <<mediaVars, userVars, callVars, dcVars, otherVars>>
nonSignalVars == <<mediaVars, userVars, callVars, dcVars, presenceVars, trackVars,
                   restVars>>
vars == <<mediaVars, userVars, callVars, dcVars, presenceVars, otherVars>>

\* ------------------------------------------------------------------ JS numbers
\* numPc is a property set on the stream object: absent until assigned.
Undefined == [kind |-> "undefined", val |-> 0]
NaN == [kind |-> "NaN", val |-> 0]
Num(n) == [kind |-> "number", val |-> n]

\* x += d / x -= d on a property that may be undefined
JsAdd(x, d) == IF x.kind = "number" THEN Num(x.val + d) ELSE NaN

\* x === 0
IsZero(x) == x.kind = "number" /\ x.val = 0

\* ------------------------------------------------------------------ constraints
\* kind "av": {audio: true, video: true};
\* kind "a": {audio: true, video: false}; kind "v": {audio: false, video: true};
\* kind "neither": {audio: false, video: false};
\* kind "screen": {audio: false, video: {mandatory: {chromeMediaSource: 'screen'}}},
\* with sourceId the value of video.mandatory.chromeMediaSourceId (0: absent)
\* and fake the value of the fake property (FALSE: absent).
Kinds == {"av", "screen"}
Profiles == {"av", "screen", "none", "temp"}

NewConstraints(p) ==
    [kind |-> IF p \in {"screen", "a", "v", "neither"} THEN p ELSE "av",
     sourceId |-> 0, fake |-> FALSE]

\* the clone made by getStream, with chromeMediaSourceId deleted
Strip(c) ==
    IF c.kind = "screen" /\ c.sourceId # 0 THEN [c EXCEPT !.sourceId = 0] ELSE c

RECURSIVE getStreamFrom(_, _, _, _)
getStreamFrom(i, cache, cns, theConstraints) ==
    IF i > Len(cache) THEN 0
    ELSE IF Strip(cns[cache[i].constraints]) = theConstraints THEN cache[i].stream
    ELSE getStreamFrom(i + 1, cache, cns, theConstraints)

getStream(cache, cns, theConstraints) == getStreamFrom(1, cache, cns, theConstraints)

RECURSIVE toRemoveIndex(_, _, _, _)
toRemoveIndex(i, cache, cns, theConstraints) ==
    IF i > Len(cache) THEN 0
    ELSE IF cns[cache[i].constraints] = theConstraints THEN i
    ELSE toRemoveIndex(i + 1, cache, cns, theConstraints)

removeStream(cache, cns, theConstraints) ==
    LET k == toRemoveIndex(1, cache, cns, theConstraints)
    IN IF k = 0 THEN cache
       ELSE SubSeq(cache, 1, k - 1) \o SubSeq(cache, k + 1, Len(cache))

\* a Q deferred settles once
Settle(d, outcome) == IF d = "pending" THEN outcome ELSE d

\* constraints.video.mandatory.chromeMediaSource and its alternatives
requestingScreenShare(c) == c.kind = "screen"

\* ------------------------------------------------------------------ Init
\* the instances as constructed, on one of the platforms, from the profiles
MediaInitFrom(platforms, fakes, profiles) ==
    /\ platform \in platforms
    /\ useFakeMedia \in fakes
    /\ \E prof \in [Inst -> profiles] :
          /\ cons = [i \in Inst |-> NewConstraints(prof[i])]
          /\ temporary = [i \in Inst |-> prof[i] = "temp"]
          /\ constraints = [i \in Inst |-> IF prof[i] = "none" THEN 0 ELSE i]
    /\ stream = [i \in Inst |-> 0]
    /\ deferred = [i \in Inst |-> "pending"]
    /\ rejectReason = [i \in Inst |-> ""]
    /\ allowTimer = [i \in Inst |-> 0]
    /\ armedTimers = [i \in Inst |-> {}]
    /\ pendingChoose = [i \in Inst |-> 0]
    /\ pendingGUM = [i \in Inst |-> 0]
    /\ mediaStreams = <<>>
    /\ respokeStreams = <<>>
    /\ nStart = [i \in Inst |-> 0]
    /\ gumCalls = [i \in Inst |-> 0]
    /\ allowFired = [i \in Inst |-> 0]
    /\ stopFired = [i \in Inst |-> 0]
    /\ stoppedInFlight = [i \in Inst |-> FALSE]

MediaInit == MediaInitFrom({"chrome", "firefox", "none"}, BOOLEAN, Profiles)

\* ------------------------------------------------------------------ LocalMedia operations
\* deferred.reject(new Error(msg)): a deferred already settled keeps its outcome
Reject(i, msg) ==
    /\ deferred' = [deferred EXCEPT ![i] = Settle(@, "rejected")]
    /\ rejectReason' = [rejectReason EXCEPT ![i] =
                            IF deferred[i] = "pending" THEN msg ELSE @]

\* onReceiveUserMedia(theStream) of instance i, run on the stream table strm and
\* the constraints heap cns; sets stream, armedTimers, mediaStreams,
\* respokeStreams, deferred and allowFired.
onReceiveUserMedia(i, theStream, strm, cns) ==
    LET aStream == getStream(respokeStreams, cns, cns[constraints[i]])
    IN /\ stream' = [stream EXCEPT ![i] = theStream]
       /\ armedTimers' = [armedTimers EXCEPT ![i] = @ \ {allowTimer[i]}]
       /\ allowFired' = [allowFired EXCEPT ![i] = @ + 1]
       /\ IF aStream # 0
          THEN /\ mediaStreams' =
                     [strm EXCEPT ![aStream].numPc = JsAdd(@, 1),
                                  ![aStream].listeners = @ \cup {i}]
               /\ UNCHANGED respokeStreams
          ELSE /\ mediaStreams' =
                     [strm EXCEPT ![theStream].numPc = Num(1),
                                  ![theStream].listeners = @ \cup {i}]
               /\ respokeStreams' =
                     Append(respokeStreams,
                            [stream |-> theStream, constraints |-> constraints[i]])
       /\ deferred' = [deferred EXCEPT ![i] = Settle(@, "resolved")]
       /\ UNCHANGED rejectReason

\* the outcome of requestMedia without constraints, were it to resolve
noConstraintsResolved == "resolved"

\* the outcome of requestMedia without constraints: deferred.reject
noConstraintsOutcome == "rejected"

\* requestMedia() of instance i
requestMedia(i) ==
    IF constraints[i] = 0
    THEN /\ deferred' = [deferred EXCEPT ![i] = Settle(@, noConstraintsOutcome)]
         /\ rejectReason' = [rejectReason EXCEPT ![i] =
                                 IF deferred[i] = "pending" THEN "No constraints."
                                 ELSE @]
         /\ UNCHANGED <<cons, stream, allowTimer, armedTimers, pendingChoose,
                        pendingGUM, mediaStreams, respokeStreams, gumCalls,
                        allowFired>>
    ELSE LET o == constraints[i]
             cns == IF useFakeMedia THEN [cons EXCEPT ![o].fake = TRUE] ELSE cons
             theStream == getStream(respokeStreams, cns, cns[o])
             timer == nStart[i] + 1
         IN /\ cons' = cns
            /\ IF theStream # 0
               THEN /\ onReceiveUserMedia(i, theStream, mediaStreams, cns)
                    /\ UNCHANGED <<allowTimer, pendingChoose, pendingGUM, gumCalls>>
               ELSE /\ allowTimer' = [allowTimer EXCEPT ![i] = timer]
                    /\ armedTimers' = [armedTimers EXCEPT ![i] = @ \cup {timer}]
                    /\ UNCHANGED <<stream, mediaStreams, respokeStreams, allowFired>>
                    /\ IF requestingScreenShare(cns[o]) /\ platform = "chrome"
                       THEN /\ pendingChoose' = [pendingChoose EXCEPT ![i] = @ + 1]
                            /\ UNCHANGED <<pendingGUM, gumCalls, deferred,
                                           rejectReason>>
                       ELSE IF requestingScreenShare(cns[o]) /\ platform = "none"
                       THEN /\ Reject(i, "Screen sharing not implemented on this platform yet.")
                            /\ UNCHANGED <<pendingChoose, pendingGUM, gumCalls>>
                       ELSE /\ pendingGUM' = [pendingGUM EXCEPT ![i] = @ + 1]
                            /\ gumCalls' = [gumCalls EXCEPT ![i] = @ + 1]
                            /\ UNCHANGED <<pendingChoose, deferred, rejectReason>>

\* a start() that takes no instance for temporary
neverTemporary(i) == FALSE

\* that.temporary
isTemporary(i) == temporary[i]

\* that.start()
start(i) ==
    /\ nStart[i] < MaxStarts
    /\ nStart' = [nStart EXCEPT ![i] = @ + 1]
    /\ IF isTemporary(i)
       THEN /\ Reject(i, "Temporary local media started!")
            /\ UNCHANGED <<cons, stream, allowTimer, armedTimers, pendingChoose,
                           pendingGUM, mediaStreams, respokeStreams, gumCalls,
                           allowFired>>
       ELSE requestMedia(i)
    /\ UNCHANGED <<platform, useFakeMedia, temporary, constraints, stopFired,
                   stoppedInFlight>>
    /\ UNCHANGED nonMediaVars

\* the callback requestMedia hands to respoke.chooseDesktopMedia;
\* sourceId = 0 stands for params.sourceId being absent
chooseDesktopMediaDone(i, sourceId) ==
    /\ pendingChoose[i] > 0
    /\ pendingChoose' = [pendingChoose EXCEPT ![i] = @ - 1]
    /\ IF sourceId = 0
       THEN /\ Reject(i, "Error trying to get screensharing source")
            /\ UNCHANGED <<cons, pendingGUM, gumCalls>>
       ELSE /\ cons' = [cons EXCEPT ![constraints[i]].sourceId = sourceId]
            /\ pendingGUM' = [pendingGUM EXCEPT ![i] = @ + 1]
            /\ gumCalls' = [gumCalls EXCEPT ![i] = @ + 1]
            /\ UNCHANGED <<deferred, rejectReason>>
    /\ UNCHANGED <<platform, useFakeMedia, temporary, constraints, stream,
                   allowTimer, armedTimers, mediaStreams, respokeStreams, nStart,
                   allowFired, stopFired, stoppedInFlight>>
    /\ UNCHANGED nonMediaVars

\* the tracks the engine delivers for constraints of this kind
audioTracks(kind) == IF kind \in {"av", "a"} THEN 1 ELSE 0
videoTracks(kind) == IF kind \in {"av", "v", "screen"} THEN 1 ELSE 0

\* the engine completes a getUserMedia request of instance i with a new
\* stream, its tracks enabled
receiveUserMedia(i) ==
    /\ pendingGUM[i] > 0
    /\ pendingGUM' = [pendingGUM EXCEPT ![i] = @ - 1]
    /\ LET theStream == Len(mediaStreams) + 1
           strm == Append(mediaStreams,
                          [numPc |-> Undefined, stopped |-> FALSE, ended |-> FALSE,
                           listeners |-> {},
                           kind |-> cons[constraints[i]].kind,
                           audioEnabled |-> TRUE, videoEnabled |-> TRUE])
       IN onReceiveUserMedia(i, theStream, strm, cons)
    /\ UNCHANGED <<platform, useFakeMedia, cons, temporary, constraints, allowTimer,
                   pendingChoose, nStart, gumCalls, stopFired, stoppedInFlight>>
    /\ UNCHANGED nonMediaVars

\* the error codes the engine reports; 0 stands for p.code being absent
ErrorCodes == {0, 1, 2}

\* "Error getting user media: " + errorMessage
errorMessage(code) ==
    IF code = 1 THEN "Error getting user media: Permission denied."
    ELSE "Error getting user media: Unknown."

\* the engine fails a getUserMedia request of instance i: onUserMediaError
onUserMediaError(i, code) ==
    /\ pendingGUM[i] > 0
    /\ pendingGUM' = [pendingGUM EXCEPT ![i] = @ - 1]
    /\ Reject(i, errorMessage(code))
    /\ UNCHANGED <<platform, useFakeMedia, cons, temporary, constraints, stream,
                   allowTimer, armedTimers, pendingChoose, mediaStreams,
                   respokeStreams, nStart, gumCalls, allowFired, stopFired,
                   stoppedInFlight>>
    /\ UNCHANGED nonMediaVars

\* the 500 ms timer of requestMedia expires (delayPermissionsRequest) and
\* fires "requesting-media"
delayPermissionsRequest(i, t) ==
    /\ t \in armedTimers[i]
    /\ armedTimers' = [armedTimers EXCEPT ![i] = @ \ {t}]
    /\ UNCHANGED <<platform, useFakeMedia, cons, temporary, constraints, stream,
                   deferred, rejectReason, allowTimer, pendingChoose, pendingGUM,
                   mediaStreams, respokeStreams, nStart, gumCalls, allowFired,
                   stopFired, stoppedInFlight>>
    /\ UNCHANGED nonMediaVars

\* that.stop()
stop(i) ==
    /\ UNCHANGED nonMediaVars
    /\ IF stream[i] = 0
       THEN /\ stoppedInFlight' =
                  [stoppedInFlight EXCEPT ![i] = @ \/ pendingChoose[i] + pendingGUM[i] > 0]
            /\ UNCHANGED <<platform, useFakeMedia, cons, temporary, constraints, stream,
                           deferred, rejectReason, allowTimer, armedTimers,
                           pendingChoose, pendingGUM, mediaStreams, respokeStreams,
                           nStart, gumCalls, allowFired, stopFired>>
       ELSE LET s == stream[i]
                n == JsAdd(mediaStreams[s].numPc, -1)
            IN /\ mediaStreams' =
                     [mediaStreams EXCEPT ![s].numPc = n,
                                          ![s].stopped = @ \/ IsZero(n)]
               /\ respokeStreams' =
                     IF IsZero(n)
                     THEN removeStream(respokeStreams, cons, cons[constraints[i]])
                     ELSE respokeStreams
               /\ stream' = [stream EXCEPT ![i] = 0]
               /\ stopFired' = [stopFired EXCEPT ![i] = @ + 1]
               /\ UNCHANGED <<platform, useFakeMedia, cons, temporary, constraints,
                              deferred, rejectReason, allowTimer, armedTimers,
                              pendingChoose, pendingGUM, nStart, gumCalls,
                              allowFired, stoppedInFlight>>

\* that.stop() of instance i as a function of the state it works on: the
\* 'ended' listeners of a stream call it one after the other
stopOn(st, i) ==
    IF st.stream[i] = 0
    THEN [st EXCEPT !.stoppedInFlight[i] = @ \/ pendingChoose[i] + pendingGUM[i] > 0]
    ELSE LET s == st.stream[i]
             n == JsAdd(st.mediaStreams[s].numPc, -1)
         IN [st EXCEPT !.mediaStreams = [@ EXCEPT ![s].numPc = n,
                                                  ![s].stopped = @ \/ IsZero(n)],
                       !.respokeStreams =
                           IF IsZero(n) THEN removeStream(@, cons, cons[constraints[i]])
                           ELSE @,
                       !.stream[i] = 0,
                       !.stopFired[i] = @ + 1]

RECURSIVE stopEach(_, _)
stopEach(st, order) ==
    IF order = <<>> THEN st ELSE stopEach(stopOn(st, Head(order)), Tail(order))

\* the orders in which the listeners of a stream can have been registered
Orders(listeners) ==
    {o \in [1..Cardinality(listeners) -> listeners] :
        \A p, q \in DOMAIN o : p # q => o[p] # o[q]}

\* the engine ends live stream s: its 'ended' event runs that.stop of every
\* instance that registered a listener on it, in the order of registration
streamEnded(s, order) ==
    /\ s \in 1..Len(mediaStreams)
    /\ ~mediaStreams[s].stopped /\ ~mediaStreams[s].ended
    /\ order \in Orders(mediaStreams[s].listeners)
    /\ LET st == stopEach([stream |-> stream,
                           mediaStreams |-> [mediaStreams EXCEPT ![s].ended = TRUE],
                           respokeStreams |-> respokeStreams,
                           stopFired |-> stopFired,
                           stoppedInFlight |-> stoppedInFlight], order)
       IN /\ stream' = st.stream
          /\ mediaStreams' = st.mediaStreams
          /\ respokeStreams' = st.respokeStreams
          /\ stopFired' = st.stopFired
          /\ stoppedInFlight' = st.stoppedInFlight
    /\ UNCHANGED <<platform, useFakeMedia, cons, temporary, constraints, deferred,
                   rejectReason, allowTimer, armedTimers, pendingChoose, pendingGUM,
                   nStart, gumCalls, allowFired>>
    /\ UNCHANGED nonMediaVars

\* capture, stop and end of stream
EndedNext ==
    \/ \E i \in Inst : start(i)
    \/ \E i \in Inst : receiveUserMedia(i)
    \/ \E i \in Inst : stop(i)
    \/ \E s \in 1..Len(mediaStreams) :
          \E order \in Orders(mediaStreams[s].listeners) : streamEnded(s, order)

MediaNext ==
    \/ \E i \in Inst : start(i)
    \/ \E i \in Inst : \E sourceId \in {0} \cup SourceIds : chooseDesktopMediaDone(i, sourceId)
    \/ \E i \in Inst : receiveUserMedia(i)
    \/ \E i \in Inst : \E code \in ErrorCodes : onUserMediaError(i, code)
    \/ \E i \in Inst : \E t \in 1..MaxStarts : delayPermissionsRequest(i, t)
    \/ \E i \in Inst : stop(i)

\* ------------------------------------------------------------------ User
\* The objects handed to addCall: an outbound Call, an inbound Call, a
\* DirectConnection, and so on in turn; their ids are chosen freely, so two
\* objects may carry the same id.
className(call) == IF call % 3 = 0 THEN "DirectConnection" ELSE "Call"
initiator(call) == call % 2 = 1

NoOp == [op |-> "none", present |-> FALSE, removed |-> 0,
         rejected |-> FALSE, fired |-> FALSE]

UserInit ==
    /\ callId \in [CallObjs -> Ids]
    /\ calls = <<>>
    /\ userListeners = {}
    /\ lastOp = NoOp

\* calls.indexOf(call), 1-based; 0 stands for -1
RECURSIVE indexOfFrom(_, _, _)
indexOfFrom(i, cs, call) ==
    IF i > Len(cs) THEN 0
    ELSE IF cs[i] = call THEN i
    ELSE indexOfFrom(i + 1, cs, call)

indexOf(cs, call) == indexOfFrom(1, cs, call)

\* that.hasListeners(name)
hasListeners(name) == name \in userListeners

\* an application registers or removes its listener for an event of the User
listen(name) ==
    /\ name \notin userListeners
    /\ userListeners' = userListeners \cup {name}
    /\ UNCHANGED <<callId, calls, lastOp>>
    /\ UNCHANGED nonUserVars

ignore(name) ==
    /\ name \in userListeners
    /\ userListeners' = userListeners \ {name}
    /\ UNCHANGED <<callId, calls, lastOp>>
    /\ UNCHANGED nonUserVars

\* addCall without its indexOf test
addCallPushAlways(cs, call) == Append(cs, call)

\* the collection after addCall
addCallPush(cs, call) == IF indexOf(cs, call) = 0 THEN Append(cs, call) ELSE cs

\* User.addCall({call: call}); lastOp records whether call.reject() was
\* invoked and whether a "call" notification was published
addCallOp(call) ==
    LET isNew == indexOf(calls, call) = 0
        unwanted == ~initiator(call) /\ ~hasListeners("call")
    IN [op |-> "addCall", present |-> ~isNew, removed |-> 0,
        rejected |-> isNew /\ className(call) = "Call" /\ unwanted,
        fired |-> isNew /\ className(call) = "Call" /\ ~unwanted]

addCall(call) ==
    /\ calls' = addCallPush(calls, call)
    /\ lastOp' = addCallOp(call)
    /\ UNCHANGED <<callId, userListeners>>
    /\ UNCHANGED nonUserVars

\* calls[i].id === params.id || (params.call && calls[i] === params.call);
\* id = 0 stands for params.id absent, call = 0 for params.call absent
matches(cs, i, id, call) ==
    callId[cs[i]] = id \/ (call # 0 /\ cs[i] = call)

\* the backward loop of removeCall from index i down, on the array cs;
\* calls.splice(i) drops the entry at i and every entry after it
RECURSIVE removeLoop(_, _, _, _)
removeLoop(i, cs, id, call) ==
    IF i < 1 THEN cs
    ELSE IF matches(cs, i, id, call)
    THEN removeLoop(i - 1, SubSeq(cs, 1, i - 1), id, call)
    ELSE removeLoop(i - 1, cs, id, call)

\* removeCall splicing out one entry, calls.splice(i, 1), at each match
RECURSIVE removeLoopSingle(_, _, _, _)
removeLoopSingle(i, cs, id, call) ==
    IF i < 1 THEN cs
    ELSE IF matches(cs, i, id, call)
    THEN removeLoopSingle(i - 1, SubSeq(cs, 1, i - 1) \o SubSeq(cs, i + 1, Len(cs)),
                          id, call)
    ELSE removeLoopSingle(i - 1, cs, id, call)

removeCallSingle(cs, id, call) == removeLoopSingle(Len(cs), cs, id, call)

\* the collection after removeCall
removeCallSplice(cs, id, call) == removeLoop(Len(cs), cs, id, call)

\* User.removeCall({id: id, call: call}); it throws, changing nothing, when
\* both are absent
removeCallOp(after) ==
    [NoOp EXCEPT !.op = "removeCall",
                 !.present = after # calls,
                 !.removed = Len(calls) - Len(after)]

removeCall(id, call) ==
    /\ IF id = 0 /\ call = 0
       THEN /\ lastOp' = [NoOp EXCEPT !.op = "removeCall threw"]
            /\ UNCHANGED calls
       ELSE /\ calls' = removeCallSplice(calls, id, call)
            /\ lastOp' = removeCallOp(removeCallSplice(calls, id, call))
    /\ UNCHANGED <<callId, userListeners>>
    /\ UNCHANGED nonUserVars

UserNext ==
    \/ listen("call")
    \/ ignore("call")
    \/ \E call \in CallObjs : addCall(call)
    \/ \E id \in {0} \cup Ids : \E call \in {0} \cup CallObjs : removeCall(id, call)

\* ------------------------------------------------------------------ Endpoint.call, User.getCall
NoCall == [op |-> "none", value |-> 0, made |-> FALSE, answered |-> FALSE,
           failed |-> FALSE, raised |-> FALSE]

CallInit ==
    /\ constructed = {}
    /\ callRemote = [c \in CallObjs |-> 0]
    /\ callState = [c \in CallObjs |-> 0]
    /\ hangupListeners = {}
    /\ hangups = [c \in CallObjs |-> 0]
    /\ listenerRuns = [c \in CallObjs |-> 0]
    /\ lastCall = NoCall

\* the object brightstream.Call(params) yields for this params.initiator: the
\* first Call not constructed yet, 0 when there is none left
Fresh(init) ==
    {c \in CallObjs \ constructed : className(c) = "Call" /\ initiator(c) = init}

newCall(init) ==
    IF Fresh(init) = {} THEN 0
    ELSE CHOOSE c \in Fresh(init) : \A d \in Fresh(init) : c <= d

\* Endpoint.call from brightstream.Call(params) on, for the Endpoint e and
\* the object c just constructed: answer() is the Call's business, addCall
\* registers the call, and the hangupListener is registered last
callBody(e, c) ==
    /\ constructed' = constructed \cup {c}
    /\ callRemote' = [callRemote EXCEPT ![c] = e]
    /\ calls' = addCallPush(calls, c)
    /\ lastOp' = addCallOp(c)
    /\ hangupListeners' = hangupListeners \cup {c}
    /\ UNCHANGED <<callId, userListeners, callState, hangups, listenerRuns>>

callFrame == UNCHANGED <<userVars, constructed, callRemote, callState,
                         hangupListeners, hangups, listenerRuns>>

\* an Endpoint.call that skips the test of that.id
hasIdAlways(e) == TRUE

\* that.id is set
hasId(e) == e # 0

\* Endpoint.call(params) on the Endpoint e with params.initiator = init
\* (undefined counts as true); throws says that brightstream.Call(params)
\* throws
Endpoint_call(e, init, throws) ==
    /\ IF ~hasId(e)
       THEN /\ lastCall' = [NoCall EXCEPT !.op = "call"]
            /\ callFrame
       ELSE IF throws
       THEN /\ lastCall' = [NoCall EXCEPT !.op = "call", !.failed = TRUE,
                                          !.raised = TRUE]
            /\ callFrame
       ELSE /\ newCall(init) # 0
            /\ callBody(e, newCall(init))
            /\ lastCall' = [NoCall EXCEPT !.op = "call", !.value = newCall(init),
                                          !.made = TRUE, !.answered = init]
    /\ UNCHANGED nonCallVars

\* getCall treating no state as terminal
neverTerminal(c) == FALSE

\* one.getState() >= 6
isTerminal(c) == callState[c] >= TerminalState

\* calls.forEach(findCall) from index i on: every match that is not terminal
\* overwrites the result, so the last one wins; 0 stands for null
RECURSIVE findCall(_, _, _, _)
findCall(i, cs, id, found) ==
    IF i > Len(cs) THEN found
    ELSE IF callRemote[cs[i]] = id /\ ~isTerminal(cs[i])
    THEN findCall(i + 1, cs, id, cs[i])
    ELSE findCall(i + 1, cs, id, found)

\* getCall creating the call as its initiator
createAsInitiator == TRUE

\* the initiator getCall passes to endpoint.call
createInitiator == FALSE

\* User.getCall({id: id, create: create}); throws says that the
\* brightstream.Call(params) inside endpoint.call throws
getCall(id, create, throws) ==
    /\ IF findCall(1, calls, id, 0) # 0 \/ ~create
       THEN /\ lastCall' = [NoCall EXCEPT !.op = "getCall",
                                          !.value = findCall(1, calls, id, 0)]
            /\ callFrame
       ELSE IF throws
       THEN /\ lastCall' = [NoCall EXCEPT !.op = "getCall", !.failed = TRUE]
            /\ callFrame
       ELSE /\ newCall(createInitiator) # 0
            /\ callBody(id, newCall(createInitiator))
            /\ lastCall' = [NoCall EXCEPT !.op = "getCall",
                                          !.value = newCall(createInitiator),
                                          !.made = TRUE,
                                          !.answered = createInitiator]
    /\ UNCHANGED nonCallVars

\* a hangupListener that removes nothing
hangupListenerIdle(cs, c) == cs

\* hangupListener: user.removeCall({id: call.id})
hangupListener(cs, c) == removeCallSplice(cs, callId[c], 0)

\* the listeners left once the one registered by call.listen('hangup', ...,
\* true) has run
afterRun(ls, c) == ls \ {c}

\* the Call c fires "hangup"
fireHangup(c) ==
    /\ c \in constructed
    /\ hangups[c] < MaxHangups
    /\ hangups' = [hangups EXCEPT ![c] = @ + 1]
    /\ IF c \in hangupListeners
       THEN /\ calls' = hangupListener(calls, c)
            /\ lastOp' = removeCallOp(hangupListener(calls, c))
            /\ hangupListeners' = afterRun(hangupListeners, c)
            /\ listenerRuns' = [listenerRuns EXCEPT ![c] = @ + 1]
       ELSE UNCHANGED <<calls, lastOp, hangupListeners, listenerRuns>>
    /\ UNCHANGED <<callId, userListeners, constructed, callRemote, callState,
                   lastCall>>
    /\ UNCHANGED nonCallVars

\* the Call c moves to another state
setState(c, st) ==
    /\ c \in constructed
    /\ st # callState[c]
    /\ callState' = [callState EXCEPT ![c] = st]
    /\ UNCHANGED <<userVars, constructed, callRemote, hangupListeners, hangups,
                   listenerRuns, lastCall>>
    /\ UNCHANGED nonCallVars

CallNext ==
    \/ listen("call")
    \/ ignore("call")
    \/ \E e \in Endpoints : \E init, throws \in BOOLEAN : Endpoint_call(e, init, throws)
    \/ \E id \in EndpointIds : \E create, throws \in BOOLEAN : getCall(id, create, throws)
    \/ \E c \in CallObjs : fireHangup(c)
    \/ \E c \in CallObjs : \E st \in CallStates : setState(c, st)

\* ------------------------------------------------------------------ Endpoint.getDirectConnection
NoDC == [op |-> "none", value |-> 0, made |-> FALSE, fired |-> 0,
         event |-> <<>>, accepted |-> FALSE, rejected |-> FALSE]

DCInit ==
    /\ directConnection = [e \in Endpoints |-> 0]
    /\ dcMade = 0
    /\ dcOwner = [d \in DCs |-> 0]
    /\ closeListeners = {}
    /\ closes = [d \in DCs |-> 0]
    /\ closeRuns = [d \in DCs |-> 0]
    /\ lastDC = NoDC

\* a getDirectConnection that never finds a cached connection
cachedNone(e) == 0

\* that.directConnection as getDirectConnection tests it on entry
cached(e) == directConnection[e]

\* a getDirectConnection that rejects no connection
dcUnwantedNever == FALSE

\* !clientObj.user.hasListeners('direct-connection')
dcUnwanted == ~hasListeners("direct-connection")

\* Endpoint.getDirectConnection(params) on the Endpoint e with
\* params.initiator = init (undefined counts as true); closesNow says that
\* reject() fires "close" before it returns, which no listener hears yet
getDirectConnection(e, init, closesNow) ==
    /\ IF cached(e) # 0
       THEN /\ lastDC' = [NoDC EXCEPT !.op = "getDirectConnection",
                                      !.value = cached(e)]
            /\ UNCHANGED <<directConnection, dcMade, dcOwner, closeListeners,
                           closes, closeRuns>>
       ELSE IF ~hasId(e)
       THEN /\ lastDC' = [NoDC EXCEPT !.op = "getDirectConnection"]
            /\ UNCHANGED <<directConnection, dcMade, dcOwner, closeListeners,
                           closes, closeRuns>>
       ELSE /\ dcMade < MaxDCs
            /\ dcMade' = dcMade + 1
            /\ directConnection' = [directConnection EXCEPT ![e] = dcMade + 1]
            /\ dcOwner' = [dcOwner EXCEPT ![dcMade + 1] = e]
            /\ lastDC' = [op |-> "getDirectConnection",
                          value |-> dcMade + 1,
                          made |-> TRUE,
                          fired |-> IF init THEN 0 ELSE 1,
                          event |-> IF init THEN <<>> ELSE <<dcMade + 1, e>>,
                          accepted |-> init,
                          rejected |-> ~init /\ dcUnwanted]
            /\ closes' = [closes EXCEPT ![dcMade + 1] =
                              IF ~init /\ dcUnwanted /\ closesNow THEN 1 ELSE 0]
            /\ closeListeners' = closeListeners \cup {dcMade + 1}
            /\ UNCHANGED closeRuns
    /\ UNCHANGED userVars
    /\ UNCHANGED nonDCVars

\* a close listener that leaves that.directConnection as it is
closeListenerKeep(ref) == ref

\* the close listener: that.directConnection = undefined
closeListener(ref) == 0

\* the close listeners left once the listener of d has run:
\* that.directConnection.ignore() drops every listener of the cached
\* connection, and the listener registered with listen('close', ..., true)
\* is not run again
afterClose(ls, d, ref) == ls \ {d, ref}

\* the DirectConnection d fires "close"; the listener throws on
\* that.directConnection.ignore() when the reference is already unset
fireClose(d) ==
    /\ d <= dcMade
    /\ closes[d] < MaxCloses
    /\ closes' = [closes EXCEPT ![d] = @ + 1]
    /\ IF d \in closeListeners
       THEN /\ directConnection' =
                  [directConnection EXCEPT ![dcOwner[d]] =
                      IF @ = 0 THEN 0 ELSE closeListener(@)]
            /\ closeListeners' =
                  afterClose(closeListeners, d, directConnection[dcOwner[d]])
            /\ closeRuns' = [closeRuns EXCEPT ![d] = @ + 1]
       ELSE UNCHANGED <<directConnection, closeListeners, closeRuns>>
    /\ UNCHANGED <<dcMade, dcOwner, lastDC>>
    /\ UNCHANGED userVars
    /\ UNCHANGED nonDCVars

DCNext ==
    \/ listen("direct-connection")
    \/ ignore("direct-connection")
    \/ \E e \in Endpoints : \E init, closesNow \in BOOLEAN :
           getDirectConnection(e, init, closesNow)
    \/ \E d \in DCs : fireClose(d)

\* ------------------------------------------------------------------ Presentable, Endpoint.resolvePresence
PresenceInit ==
    /\ hasResolver \in BOOLEAN
    /\ sessions = <<>>
    /\ presence = "unavailable"
    /\ presenceLog = <<>>
    /\ presenceFired = <<>>

options == <<"chat", "available", "away", "dnd", "xa", "unavailable">>

\* a sorter that ranks every presence alike
priorityFlat(p) == 0

\* options.indexOf(presence), with 1000 for -1
priority(p) == IF indexOf(options, p) = 0 THEN 1000 ELSE indexOf(options, p) - 1

\* sorter(a, b) < 0, on the presence of the two sessions
sorter(a, b) == priority(a.presence) < priority(b.presence)

\* one session put into a sorted array, behind every session the sorter
\* does not rank after it: the sort keeps the order of equals
RECURSIVE insertSorted(_, _, _)
insertSorted(sorted, i, x) ==
    IF i > Len(sorted) THEN Append(sorted, x)
    ELSE IF sorter(x, sorted[i])
    THEN SubSeq(sorted, 1, i - 1) \o <<x>> \o SubSeq(sorted, i, Len(sorted))
    ELSE insertSorted(sorted, i + 1, x)

\* connectionIds.sort(sorter), on the sessions in the order of Object.keys
RECURSIVE sortFrom(_, _, _)
sortFrom(ss, i, sorted) ==
    IF i > Len(ss) THEN sorted
    ELSE sortFrom(ss, i + 1, insertSorted(sorted, 1, ss[i]))

\* Endpoint.resolvePresence({sessions: ss})
resolvePresence(ss) ==
    IF sortFrom(ss, 1, <<>>) = <<>> THEN "unavailable"
    ELSE sortFrom(ss, 1, <<>>)[1].presence

\* the index of the session of connectionId in ss, 0 when there is none
RECURSIVE sessionIndex(_, _, _)
sessionIndex(ss, i, connectionId) ==
    IF i > Len(ss) THEN 0
    ELSE IF ss[i].connectionId = connectionId THEN i
    ELSE sessionIndex(ss, i + 1, connectionId)

\* a setPresence that adds a session whatever sessions there are
putSessionAgain(ss, connectionId, p) ==
    Append(ss, [connectionId |-> connectionId, presence |-> p])

\* sessions[connectionId] = {connectionId: connectionId, presence: p}
putSession(ss, connectionId, p) ==
    IF sessionIndex(ss, 1, connectionId) = 0
    THEN Append(ss, [connectionId |-> connectionId, presence |-> p])
    ELSE [ss EXCEPT ![sessionIndex(ss, 1, connectionId)] =
             [connectionId |-> connectionId, presence |-> p]]

\* a setPresence that notifies only of a change
firePresenceOnChange(fired, old, new) ==
    IF old = new THEN fired ELSE Append(fired, new)

\* that.fire('presence', {presence: presence}), after presence went from
\* old to new
firePresence(fired, old, new) == Append(fired, new)

\* params.presence || 'available'
presenceOf(p) == IF p = "" THEN "available" ELSE p

\* params.connectionId || 'local'
connectionIdOf(connectionId) == IF connectionId = "" THEN "local" ELSE connectionId

\* the body of Presentable.setPresence, which User keeps as
\* superClass.setPresence
superSetPresence(connectionId, p) ==
    /\ presenceLog' = Append(presenceLog, [connectionId |-> connectionId, presence |-> p])
    /\ sessions' = putSession(sessions, connectionIdOf(connectionId), presenceOf(p))
    /\ presence' = IF hasResolver
                   THEN resolvePresence(putSession(sessions,
                                                   connectionIdOf(connectionId),
                                                   presenceOf(p)))
                   ELSE presenceOf(p)
    /\ presenceFired' = firePresence(presenceFired, presence, presence')
    /\ UNCHANGED hasResolver

\* Presentable.setPresence({presence: p, connectionId: connectionId})
setPresence(connectionId, p) ==
    /\ Len(presenceLog) < MaxSets
    /\ superSetPresence(connectionId, p)
    /\ UNCHANGED nonPresenceVars

\* Presentable.getPresence()
getPresence == presence

PresenceNext ==
    \E connectionId \in {""} \cup ConnectionIds : \E p \in {""} \cup PresenceValues :
        setPresence(connectionId, p)

\* ------------------------------------------------------------------ Endpoint.sendSignal, sendMessage
\* params.signal / params.message: "undefined" stands for an absent property
Payloads == {"undefined", "", "offer"}

\* !params.signal
signalMissing(signal) == signal \in {"undefined", ""}

SignalInit ==
    /\ promises = <<>>
    /\ transport = <<>>

\* whether sendSignal reaches signalingChannel.sendSignal: the test of
\* params.signal only rejects the deferred, it does not return
handed(signal) == TRUE

\* Endpoint.sendSignal({signal, connectionId}) of endpoint e
sendSignal(e, signal, connectionId) ==
    /\ Len(promises) < MaxSignals
    /\ promises' =
          Append(promises,
                 IF signalMissing(signal)
                 THEN [state |-> "rejected",
                       reason |-> "Can't send a signal without a 'signal' paramter."]
                 ELSE [state |-> "pending", reason |-> ""])
    /\ transport' =
          IF handed(signal)
          THEN Append(transport,
                      [method |-> "sendSignal", recipient |-> e, payload |-> signal,
                       connectionId |-> connectionId, promise |-> Len(promises) + 1,
                       state |-> "pending"])
          ELSE transport
    /\ UNCHANGED nonSignalVars

\* Endpoint.sendMessage({message, connectionId}) of endpoint e: the promise
\* returned is the signaling channel's own
sendMessage(e, message, connectionId) ==
    /\ Len(promises) < MaxSignals
    /\ promises' = Append(promises, [state |-> "pending", reason |-> ""])
    /\ transport' =
          Append(transport,
                 [method |-> "sendMessage", recipient |-> e, payload |-> message,
                  connectionId |-> connectionId, promise |-> Len(promises) + 1,
                  state |-> "pending"])
    /\ UNCHANGED nonSignalVars

\* the signaling channel settles request k; the handlers given to done()
\* settle the caller's deferred, which keeps an earlier outcome
transportDone(k, outcome) ==
    /\ k \in DOMAIN transport
    /\ transport[k].state = "pending"
    /\ transport' = [transport EXCEPT ![k].state = outcome]
    /\ promises' =
          [promises EXCEPT ![transport[k].promise] =
              IF @.state = "pending"
              THEN [state |-> outcome,
                    reason |-> IF outcome = "rejected" THEN "transport" ELSE ""]
              ELSE @]
    /\ UNCHANGED nonSignalVars

SignalNext ==
    \/ \E e \in EndpointIds : \E signal \in Payloads : \E connectionId \in {0, 1} :
          sendSignal(e, signal, connectionId)
    \/ \E e \in EndpointIds : \E message \in Payloads : \E connectionId \in {0, 1} :
          sendMessage(e, message, connectionId)
    \/ \E k \in 1..MaxSignals : \E outcome \in {"resolved", "rejected"} :
          transportDone(k, outcome)

\* ------------------------------------------------------------------ LocalMedia tracks and capabilities
TrackProfiles == {"av", "a", "v", "temp"}
NoMute == [op |-> "none", outcome |-> "none", event |-> <<>>]
NotParsed == [set |-> FALSE, audio |-> FALSE, video |-> FALSE]

TrackInit ==
    /\ sdpHasAudio = [i \in Inst |-> FALSE]
    /\ sdpHasVideo = [i \in Inst |-> FALSE]
    /\ lastParsed = [i \in Inst |-> NotParsed]
    /\ nParses = 0
    /\ muteFired = 0
    /\ lastMute = NoMute

\* respoke.constraintsHasAudio / respoke.constraintsHasVideo
constraintsHasAudio(c) == c.kind \in {"av", "a"}
constraintsHasVideo(c) == c.kind \in {"av", "v", "screen"}

\* the constraints object setSDP builds from what the description has
sdpConstraints(a, v) ==
    NewConstraints(IF a /\ v THEN "av" ELSE IF a THEN "a" ELSE IF v THEN "v"
                   ELSE "neither")

\* that.isVideoMuted() / that.isAudioMuted(): "undefined", "true" or "false"
isVideoMuted(i) ==
    IF stream[i] = 0 \/ videoTracks(mediaStreams[stream[i]].kind) = 0
    THEN "undefined"
    ELSE IF ~mediaStreams[stream[i]].videoEnabled THEN "true" ELSE "false"

isAudioMuted(i) ==
    IF stream[i] = 0 \/ audioTracks(mediaStreams[stream[i]].kind) = 0
    THEN "undefined"
    ELSE IF ~mediaStreams[stream[i]].audioEnabled THEN "true" ELSE "false"

\* the four mute operations: type is "video" or "audio", muted the state
\* asked for. The early return tests isXMuted(); past it, a null stream makes
\* that.stream.getXTracks() throw, and a stream without tracks of the type
\* has nothing to set while the notification is fired all the same.
\* The outcome is "returned", "threw" or "fired": the latter stands for one
\* "mute" notification {type: type, muted: muted}, kept as event.
returnsEarly(i, type, muted) ==
    LET isMuted == IF type = "video" THEN isVideoMuted(i) ELSE isAudioMuted(i)
    IN IF muted THEN isMuted = "true" ELSE isMuted # "true"

\* a forEach that sets the enabled flag of the tracks of both types
eachTrackOfStream(strm, s, type, enabled) ==
    [strm EXCEPT ![s].videoEnabled = IF videoTracks(strm[s].kind) > 0 THEN enabled ELSE @,
                 ![s].audioEnabled = IF audioTracks(strm[s].kind) > 0 THEN enabled ELSE @]

\* that.stream.getXTracks().forEach(track.enabled = enabled) on stream s
eachTrack(strm, s, type, enabled) ==
    IF type = "video"
    THEN [strm EXCEPT ![s].videoEnabled =
                         IF videoTracks(strm[s].kind) > 0 THEN enabled ELSE @]
    ELSE [strm EXCEPT ![s].audioEnabled =
                         IF audioTracks(strm[s].kind) > 0 THEN enabled ELSE @]

setMuted(i, op, type, muted) ==
    LET s == stream[i]
        outcome == IF returnsEarly(i, type, muted) THEN "returned"
                   ELSE IF s = 0 THEN "threw" ELSE "fired"
    IN /\ muteFired < MaxMutes
       /\ lastMute' = [op |-> op, outcome |-> outcome,
                       event |-> IF outcome = "fired" THEN <<type, muted>> ELSE <<>>]
       /\ muteFired' = IF outcome = "fired" THEN muteFired + 1 ELSE muteFired
       /\ mediaStreams' =
             IF outcome # "fired" THEN mediaStreams
             ELSE eachTrack(mediaStreams, s, type, ~muted)
       /\ UNCHANGED <<platform, useFakeMedia, cons, temporary, constraints, stream,
                      deferred, rejectReason, allowTimer, armedTimers, pendingChoose,
                      pendingGUM, respokeStreams, nStart, gumCalls, allowFired,
                      stopFired, stoppedInFlight>>
       /\ UNCHANGED <<sdpHasAudio, sdpHasVideo, lastParsed, nParses>>
       /\ UNCHANGED <<userVars, callVars, dcVars, presenceVars, signalVars, restVars>>

muteVideo(i) == setMuted(i, "muteVideo", "video", TRUE)
unmuteVideo(i) == setMuted(i, "unmuteVideo", "video", FALSE)
muteAudio(i) == setMuted(i, "muteAudio", "audio", TRUE)
unmuteAudio(i) == setMuted(i, "unmuteAudio", "audio", FALSE)

trackFrame ==
    /\ UNCHANGED <<platform, useFakeMedia, temporary, stream, deferred, rejectReason,
                   allowTimer, armedTimers, pendingChoose, pendingGUM, mediaStreams,
                   respokeStreams, nStart, gumCalls, allowFired, stopFired,
                   stoppedInFlight>>
    /\ UNCHANGED <<muteFired, lastMute>>
    /\ UNCHANGED <<userVars, callVars, dcVars, presenceVars, signalVars, restVars>>

\* that.setSDP(oSession); a and v are what respoke.sdpHasAudio and
\* respoke.sdpHasVideo find in oSession.sdp
setSDP(i, a, v) ==
    /\ nParses < MaxParses
    /\ nParses' = nParses + 1
    /\ sdpHasVideo' = [sdpHasVideo EXCEPT ![i] = v]
    /\ sdpHasAudio' = [sdpHasAudio EXCEPT ![i] = a]
    /\ lastParsed' = [lastParsed EXCEPT ![i] = [set |-> TRUE, audio |-> a, video |-> v]]
    /\ IF temporary[i]
       THEN /\ cons' = Append(cons, sdpConstraints(a, v))
            /\ constraints' = [constraints EXCEPT ![i] = Len(cons) + 1]
       ELSE UNCHANGED <<cons, constraints>>
    /\ trackFrame

\* that.setConstraints(constraints) with a new constraints object of the
\* kind given, called while no capture request of the instance is outstanding
setConstraints(i, kind) ==
    /\ pendingChoose[i] = 0 /\ pendingGUM[i] = 0
    /\ nParses < MaxParses
    /\ nParses' = nParses + 1
    /\ cons' = Append(cons, NewConstraints(kind))
    /\ constraints' = [constraints EXCEPT ![i] = Len(cons) + 1]
    /\ sdpHasVideo' = [sdpHasVideo EXCEPT ![i] = constraintsHasVideo(NewConstraints(kind))]
    /\ sdpHasAudio' = [sdpHasAudio EXCEPT ![i] = constraintsHasAudio(NewConstraints(kind))]
    /\ lastParsed' =
          [lastParsed EXCEPT ![i] =
              [set |-> TRUE, audio |-> constraintsHasAudio(NewConstraints(kind)),
               video |-> constraintsHasVideo(NewConstraints(kind))]]
    /\ trackFrame

\* a hasVideo() that never looks at the stream
hasVideoFromSdp(i) == sdpHasVideo[i]

\* that.hasVideo() / that.hasAudio()
hasVideo(i) ==
    IF stream[i] # 0 THEN videoTracks(mediaStreams[stream[i]].kind) > 0
    ELSE sdpHasVideo[i]

hasAudio(i) ==
    IF stream[i] # 0 THEN audioTracks(mediaStreams[stream[i]].kind) > 0
    ELSE sdpHasAudio[i]

MuteNext ==
    \/ \E i \in Inst : start(i)
    \/ \E i \in Inst : receiveUserMedia(i)
    \/ \E i \in Inst : stop(i)
    \/ \E i \in Inst : muteVideo(i)
    \/ \E i \in Inst : unmuteVideo(i)
    \/ \E i \in Inst : muteAudio(i)
    \/ \E i \in Inst : unmuteAudio(i)

CapabilityNext ==
    \/ \E i \in Inst : start(i)
    \/ \E i \in Inst : receiveUserMedia(i)
    \/ \E i \in Inst : stop(i)
    \/ \E i \in Inst : \E a \in BOOLEAN : \E v \in BOOLEAN : setSDP(i, a, v)
    \/ \E i \in Inst : \E kind \in {"av", "a", "v"} : setConstraints(i, kind)

\* ------------------------------------------------------------------ webrtc.SignalingChannel
ChannelInit == state = "new" /\ channelCalls = <<>>

channelFrame ==
    UNCHANGED <<mediaVars, userVars, callVars, dcVars, presenceVars, signalVars,
                trackVars, callbackVars>>

\* a channel that counts as open until it is closed
isOpenUnlessClosed(st) == st # "closed"

\* SignalingChannel.getState()
getState == state

\* SignalingChannel.isOpen(), on the state st
isOpen(st) == st = "open"

\* SignalingChannel.open()
open ==
    /\ Len(channelCalls) < MaxChannelCalls
    /\ state' = "open"
    /\ channelCalls' = Append(channelCalls, "open")
    /\ channelFrame

\* SignalingChannel.close()
close ==
    /\ Len(channelCalls) < MaxChannelCalls
    /\ state' = "closed"
    /\ channelCalls' = Append(channelCalls, "close")
    /\ channelFrame

\* SignalingChannel.send(message): the body is empty
send ==
    /\ Len(channelCalls) < MaxChannelCalls
    /\ channelCalls' = Append(channelCalls, "send")
    /\ UNCHANGED state
    /\ channelFrame

ChannelNext == open \/ close \/ send


\* ------------------------------------------------------------------ User.setPresence
\* the presence values an application hands to User.setPresence
UserPresences == {"", "available", "away", "dnd"}

sendPresenceFrame ==
    UNCHANGED <<mediaVars, userVars, callVars, dcVars, promises, trackVars,
                invoked, channelVars>>

\* User.setPresence({presence: p, connectionId: connectionId}): the request
\* goes to signalingChannel.sendPresence and nothing else happens
User_setPresence(connectionId, p) ==
    /\ Len(transport) < MaxSets
    /\ transport' =
          Append(transport,
                 [method |-> "sendPresence", presence |-> presenceOf(p),
                  connectionId |-> connectionId, state |-> "pending"])
    /\ UNCHANGED <<presenceVars, handlers>>
    /\ sendPresenceFrame

\* a User that updates itself whatever the signaling channel reports
onSuccessAlways(outcome) == TRUE

\* whether the signaling channel calls the onSuccess handler
onSuccess(outcome) == outcome = "success"

\* the signaling channel settles request k: on success the handler runs
\* superClass.setPresence(params) and then params.onSuccess, on failure
\* params.onError is all that runs
sendPresenceDone(k, outcome) ==
    /\ k \in DOMAIN transport
    /\ transport[k].state = "pending"
    /\ transport' = [transport EXCEPT ![k].state = outcome]
    /\ IF onSuccess(outcome)
       THEN /\ superSetPresence(transport[k].connectionId, transport[k].presence)
            /\ handlers' = Append(handlers,
                                  [request |-> k, handler |-> "onSuccess",
                                   fired |-> Len(presenceFired')])
       ELSE /\ UNCHANGED presenceVars
            /\ handlers' = Append(handlers,
                                  [request |-> k, handler |-> "onError",
                                   fired |-> Len(presenceFired)])
    /\ sendPresenceFrame

SendPresenceNext ==
    \/ \E connectionId \in {"", "c1"} : \E p \in UserPresences :
          User_setPresence(connectionId, p)
    \/ \E k \in 1..MaxSets : \E outcome \in {"success", "failure"} :
          sendPresenceDone(k, outcome)


\* ------------------------------------------------------------------ signaling callbacks
\* signalOffer, signalConnected, signalAnswer, signalCandidate,
\* signalTerminate and signalReport
Signals == {"offer", "connected", "answer", "candidate", "terminate", "report"}

\* what the callback for signal injected by Endpoint.call of the Endpoint e
\* hands to the signaling channel: signalOffer passes no connectionId (0),
\* signalReport sends nothing
callSignal(e, signal, connectionId) ==
    CASE signal = "offer" ->
             <<[method |-> "sendSDP", type |-> "offer", target |-> "call",
                recipient |-> e, connectionId |-> 0]>>
      [] signal = "connected" ->
             <<[method |-> "sendConnected", type |-> "", target |-> "call",
                recipient |-> e, connectionId |-> connectionId]>>
      [] signal = "answer" ->
             <<[method |-> "sendSDP", type |-> "answer", target |-> "call",
                recipient |-> e, connectionId |-> connectionId]>>
      [] signal = "candidate" ->
             <<[method |-> "sendCandidate", type |-> "", target |-> "call",
                recipient |-> e, connectionId |-> connectionId]>>
      [] signal = "terminate" ->
             <<[method |-> "sendBye", type |-> "", target |-> "call",
                recipient |-> e, connectionId |-> connectionId]>>
      [] signal = "report" -> <<>>

\* a getDirectConnection that injects the callbacks of Endpoint.call
callSignalAgain(e, signal, connectionId) == callSignal(e, signal, connectionId)

\* the same for the callbacks injected by getDirectConnection
directConnectionSignal(e, signal, connectionId) ==
    CASE signal = "offer" ->
             <<[method |-> "sendSDP", type |-> "offer", target |-> "directConnection",
                recipient |-> e, connectionId |-> 0]>>
      [] signal = "connected" ->
             <<[method |-> "sendConnected", type |-> "", target |-> "directConnection",
                recipient |-> e, connectionId |-> connectionId]>>
      [] signal = "answer" ->
             <<[method |-> "sendSDP", type |-> "answer", target |-> "directConnection",
                recipient |-> e, connectionId |-> connectionId]>>
      [] signal = "candidate" ->
             <<[method |-> "sendCandidate", type |-> "", target |-> "directConnection",
                recipient |-> e, connectionId |-> connectionId]>>
      [] signal = "terminate" ->
             <<[method |-> "sendBye", type |-> "", target |-> "directConnection",
                recipient |-> e, connectionId |-> connectionId]>>
      [] signal = "report" -> <<>>

callbackFrame ==
    UNCHANGED <<mediaVars, userVars, callVars, dcVars, presenceVars, promises,
                trackVars, handlers, channelVars>>

\* the Call c invokes the callback for signal that Endpoint.call put into
\* its params
invokeCallSignal(c, signal, connectionId) ==
    /\ c \in constructed
    /\ Len(invoked) < MaxInvoked
    /\ invoked' = Append(invoked, [kind |-> "call", session |-> c,
                                   signal |-> signal])
    /\ transport' = transport \o callSignal(callRemote[c], signal, connectionId)
    /\ callbackFrame

\* the DirectConnection d invokes the callback for signal that
\* getDirectConnection put into its params
invokeDirectConnectionSignal(d, signal, connectionId) ==
    /\ d \in 1..dcMade
    /\ Len(invoked) < MaxInvoked
    /\ invoked' = Append(invoked, [kind |-> "directConnection", session |-> d,
                                   signal |-> signal])
    /\ transport' = transport \o directConnectionSignal(dcOwner[d], signal, connectionId)
    /\ callbackFrame

CallbackNext ==
    \/ \E e \in Endpoints : \E init, throws \in BOOLEAN : Endpoint_call(e, init, throws)
    \/ \E e \in Endpoints : \E init, closesNow \in BOOLEAN :
           getDirectConnection(e, init, closesNow)
    \/ \E c \in CallObjs : \E signal \in Signals : invokeCallSignal(c, signal, 1)
    \/ \E d \in DCs : \E signal \in Signals : invokeDirectConnectionSignal(d, signal, 1)


\* ------------------------------------------------------------------ specifications
\* each component runs with the other one at rest
MediaQuiet ==
    /\ platform = "none"
    /\ useFakeMedia = FALSE
    /\ cons = [i \in Inst |-> NewConstraints("av")]
    /\ temporary = [i \in Inst |-> FALSE]
    /\ constraints = [i \in Inst |-> i]
    /\ stream = [i \in Inst |-> 0]
    /\ deferred = [i \in Inst |-> "pending"]
    /\ rejectReason = [i \in Inst |-> ""]
    /\ allowTimer = [i \in Inst |-> 0]
    /\ armedTimers = [i \in Inst |-> {}]
    /\ pendingChoose = [i \in Inst |-> 0]
    /\ pendingGUM = [i \in Inst |-> 0]
    /\ mediaStreams = <<>>
    /\ respokeStreams = <<>>
    /\ nStart = [i \in Inst |-> 0]
    /\ gumCalls = [i \in Inst |-> 0]
    /\ allowFired = [i \in Inst |-> 0]
    /\ stopFired = [i \in Inst |-> 0]
    /\ stoppedInFlight = [i \in Inst |-> FALSE]

UserQuiet ==
    /\ callId = [c \in CallObjs |-> 1]
    /\ calls = <<>>
    /\ userListeners = {}
    /\ lastOp = NoOp

CallQuiet == CallInit
DCQuiet == DCInit

PresenceQuiet ==
    /\ hasResolver = TRUE
    /\ sessions = <<>>
    /\ presence = "unavailable"
    /\ presenceLog = <<>>
    /\ presenceFired = <<>>

SignalQuiet == SignalInit
TrackQuiet == TrackInit
CallbackQuiet == invoked = <<>> /\ handlers = <<>>
ChannelQuiet == state = "new" /\ channelCalls = <<>>
RestQuiet == CallbackQuiet /\ ChannelQuiet
OtherQuiet == SignalQuiet /\ TrackQuiet /\ RestQuiet

MediaSpecInit ==
    MediaInit /\ UserQuiet /\ CallQuiet /\ DCQuiet /\ PresenceQuiet /\ OtherQuiet
MediaSpec == MediaSpecInit /\ [][MediaNext]_vars

UserSpecInit ==
    UserInit /\ MediaQuiet /\ CallQuiet /\ DCQuiet /\ PresenceQuiet /\ OtherQuiet
UserSpec == UserSpecInit /\ [][UserNext]_vars

DCSpecInit ==
    DCInit /\ UserQuiet /\ CallQuiet /\ MediaQuiet /\ PresenceQuiet /\ OtherQuiet
DCSpec == DCSpecInit /\ [][DCNext]_vars

\* Endpoint.call constructs Calls only: the other objects stay out of it
CallSpecInit ==
    /\ UserInit
    /\ \A c \in CallObjs : className(c) # "Call" => callId[c] = 1
    /\ CallInit
    /\ MediaQuiet
    /\ DCQuiet
    /\ PresenceQuiet
    /\ OtherQuiet
CallSpec == CallSpecInit /\ [][CallNext]_vars

PresenceSpecInit ==
    PresenceInit /\ MediaQuiet /\ UserQuiet /\ CallQuiet /\ DCQuiet /\ OtherQuiet
PresenceSpec == PresenceSpecInit /\ [][PresenceNext]_vars

SignalSpecInit ==
    /\ SignalInit
    /\ MediaQuiet /\ UserQuiet /\ CallQuiet /\ DCQuiet /\ PresenceQuiet /\ TrackQuiet
    /\ RestQuiet
SignalSpec == SignalSpecInit /\ [][SignalNext]_vars

\* capture, mute and capability queries of instances that ask for audio,
\* video or both on a page without screen sharing; the last instance asks
\* for both
TrackSpecInit ==
    /\ MediaInitFrom({"none"}, {FALSE}, TrackProfiles)
    /\ ~temporary[NumInst] /\ cons[NumInst].kind = "av"
    /\ TrackInit
    /\ UserQuiet /\ CallQuiet /\ DCQuiet /\ PresenceQuiet /\ SignalQuiet /\ RestQuiet
MuteSpec == TrackSpecInit /\ [][MuteNext]_vars
EndedSpec == TrackSpecInit /\ [][EndedNext]_vars
CapabilitySpec == TrackSpecInit /\ [][CapabilityNext]_vars

ChannelSpecInit ==
    /\ ChannelInit
    /\ MediaQuiet /\ UserQuiet /\ CallQuiet /\ DCQuiet /\ PresenceQuiet
    /\ SignalQuiet /\ TrackQuiet /\ CallbackQuiet
ChannelSpec == ChannelSpecInit /\ [][ChannelNext]_vars


\* a User is a Presentable without a resolvePresence
SendPresenceSpecInit ==
    /\ PresenceInit /\ ~hasResolver
    /\ SignalInit /\ RestQuiet
    /\ MediaQuiet /\ UserQuiet /\ CallQuiet /\ DCQuiet /\ TrackQuiet
SendPresenceSpec == SendPresenceSpecInit /\ [][SendPresenceNext]_vars


CallbackSpecInit ==
    /\ CallInit /\ DCInit /\ SignalInit /\ RestQuiet
    /\ MediaQuiet /\ UserQuiet /\ PresenceQuiet /\ TrackQuiet
CallbackSpec == CallbackSpecInit /\ [][CallbackNext]_vars


Init ==
    /\ MediaInit /\ UserInit /\ CallInit /\ DCInit /\ PresenceInit /\ SignalInit
    /\ TrackInit /\ RestQuiet
Next ==
    \/ MediaNext \/ UserNext \/ CallNext \/ DCNext \/ PresenceNext \/ SignalNext
    \/ MuteNext \/ CapabilityNext \/ EndedNext
    \/ CallbackNext \/ SendPresenceNext \/ ChannelNext
Spec == Init /\ [][Next]_vars

\* ------------------------------------------------------------------ LocalMedia queries
\* that.hasMedia()
hasMedia(i) == stream[i] # 0

\* the streams held by cache entries, and the instances holding a stream
CachedStreams == {respokeStreams[k].stream : k \in 1..Len(respokeStreams)}
Holders(s) == {i \in Inst : stream[i] = s}
Quiescent(i) == pendingChoose[i] = 0 /\ pendingGUM[i] = 0
Normalized(i) == Strip(cons[constraints[i]])
EntryFor(i) == getStream(respokeStreams, cons, Normalized(i))

\* ------------------------------------------------------------------ claims on LocalMedia
\* C1: every cache entry's reference count (numPc) equals the number of
\* LocalMedia instances whose stream field points at the entry's stream.
C1_RefCountEqualsHolders ==
    \A s \in CachedStreams : mediaStreams[s].numPc = Num(Cardinality(Holders(s)))

\* Two instances with equal normalized constraints, each started once, each
\* start having issued its own capture request (so both starts preceded both
\* completions), both completions delivered, neither stopped.
RacedPair(i, j) ==
    /\ i # j
    /\ constraints[i] # 0 /\ constraints[j] # 0
    /\ Normalized(i) = Normalized(j)
    /\ nStart[i] = 1 /\ nStart[j] = 1
    /\ gumCalls[i] = 1 /\ gumCalls[j] = 1
    /\ Quiescent(i) /\ Quiescent(j)
    /\ hasMedia(i) /\ hasMedia(j)
    /\ stopFired[i] = 0 /\ stopFired[j] = 0

SharedEntry(i, j) ==
    /\ stream[i] = stream[j]
    /\ mediaStreams[stream[i]].numPc = Num(2)
    /\ Cardinality({k \in 1..Len(respokeStreams) :
                      Strip(cons[respokeStreams[k].constraints]) = Normalized(i)}) = 1
    /\ EntryFor(i) = stream[i]

\* C2: two instances with equal normalized constraints started before either
\* capture completes share, after both completions, one cache entry and one
\* stream handle with reference count 2; stopping one of them then leaves the
\* count at 1 and the stream not stopped.
C2_ConcurrentStartsShare ==
    [][\A i, j \in Inst :
          /\ RacedPair(i, j)' => SharedEntry(i, j)'
          /\ (RacedPair(i, j) /\ stream'[i] = 0) =>
                /\ EntryFor(i) # 0
                /\ mediaStreams'[EntryFor(i)].numPc = Num(1)
                /\ ~mediaStreams'[EntryFor(i)].stopped]_mediaVars

\* C3: for a live instance with constraints, start() followed by stop() (after
\* the capture completed, or while it was in flight) leaves the cache without
\* an entry for that constraint set once every pending completion is delivered.
C3_StartStopLeavesNoEntry ==
    \A i \in Inst :
        ( /\ ~temporary[i] /\ constraints[i] # 0
          /\ nStart[i] = 1
          /\ \A j \in Inst \ {i} : nStart[j] = 0
          /\ stopFired[i] >= 1 \/ stoppedInFlight[i]
          /\ Quiescent(i) )
        => EntryFor(i) = 0

\* C4: when stop() was called while the capture request was in flight, the
\* later completion is ignored: the stream stays null, hasMedia() stays false
\* and no cache entry is created or incremented for the instance.
C4_CompletionAfterStopIgnored ==
    \A i \in Inst :
        (nStart[i] = 1 /\ stoppedInFlight[i]) =>
            /\ stream[i] = 0
            /\ ~hasMedia(i)
            /\ \A s \in 1..Len(mediaStreams) : i \notin mediaStreams[s].listeners

\* C5: the cache holds at most one entry per normalized constraint set.
C5_OneEntryPerConstraints ==
    \A k1, k2 \in 1..Len(respokeStreams) :
        k1 # k2 => Strip(cons[respokeStreams[k1].constraints])
                     # Strip(cons[respokeStreams[k2].constraints])

EntryLive(s) ==
    /\ mediaStreams[s].numPc.kind = "number"
    /\ mediaStreams[s].numPc.val >= 1
    /\ ~mediaStreams[s].stopped

\* C6: every cache entry has reference count >= 1 and a stream that is not
\* stopped; a stop() that brings the count to 0 stops the stream and removes
\* the entry in the same step, and no entry is removed while its count is
\* above 0.
C6_EntriesLive ==
    [][/\ \A s \in CachedStreams' : EntryLive(s)'
       /\ \A s \in CachedStreams :
             /\ IsZero(mediaStreams'[s].numPc) =>
                   mediaStreams'[s].stopped /\ s \notin CachedStreams'
             /\ s \notin CachedStreams' => IsZero(mediaStreams'[s].numPc)]_mediaVars

\* ------------------------------------------------------------------ claims on the User
\* C7: the same call reference never appears twice in the active-call
\* collection, after any sequence of addCall and removeCall.
C7_NoDuplicateReference ==
    \A p, q \in 1..Len(calls) : p # q => calls[p] # calls[q]

\* addCall was handed a reference already in the collection, next to others
C7_Witness ==
    lastOp.op = "addCall" /\ lastOp.present /\ Len(calls) >= 2

\* C8: the active-call collection never holds two entries with the same id,
\* even when they are distinct objects.
C8_NoDuplicateId ==
    \A p, q \in 1..Len(calls) :
        p # q => callId[calls[p]] # callId[calls[q]]

InCalls(cs, call) == \E p \in 1..Len(cs) : cs[p] = call

\* C9: addCall of a Call with initiator false while the User has no "call"
\* subscriber rejects the call, publishes no "call" notification and leaves
\* the call out of the active-call collection.
C9_InboundWithoutListenerRejected ==
    [][\A call \in CallObjs :
          ( /\ addCall(call)
            /\ className(call) = "Call"
            /\ ~initiator(call)
            /\ ~hasListeners("call")
            /\ ~InCalls(calls, call) )
          => /\ lastOp'.rejected
             /\ ~lastOp'.fired
             /\ ~InCalls(calls', call)]_vars

MatchingIndexes(cs, id, call) ==
    {p \in 1..Len(cs) : callId[cs[p]] = id \/ (call # 0 /\ cs[p] = call)}

LowestMatch(cs, id, call) ==
    CHOOSE p \in MatchingIndexes(cs, id, call) :
        \A q \in MatchingIndexes(cs, id, call) : p <= q

\* C10: removeCall with a matching id or reference leaves exactly the prefix of
\* the previous collection that precedes the lowest-index matching entry.
C10_RemoveCallTruncates ==
    [][\A id \in {0} \cup Ids : \A call \in {0} \cup CallObjs :
          ( /\ removeCall(id, call)
            /\ MatchingIndexes(calls, id, call) # {} )
          => calls' = SubSeq(calls, 1, LowestMatch(calls, id, call) - 1)]_vars

\* removeCall matched an entry that was neither first nor last: it removed
\* that entry and at least one after it, and kept a non-empty prefix
C10_Witness ==
    lastOp.op = "removeCall" /\ lastOp.removed >= 2 /\ Len(calls) >= 1

C15_GetCallSkipsTerminal ==
    [][\A id \in EndpointIds : \A create, throws \in BOOLEAN :
          getCall(id, create, throws) =>
              /\ lastCall'.value # 0 => callState'[lastCall'.value] < TerminalState
              /\ (lastCall'.value # 0 /\ InCalls(calls, lastCall'.value)) =>
                     /\ callRemote[lastCall'.value] = id
                     /\ callState[lastCall'.value] < TerminalState
              /\ (/\ ~create
                  /\ \A i \in 1..Len(calls) :
                         callRemote[calls[i]] = id =>
                             callState[calls[i]] >= TerminalState) =>
                     lastCall'.value = 0]_vars

C15_Witness ==
    /\ lastCall.op = "getCall"
    /\ lastCall.value # 0
    /\ ~lastCall.made
    /\ \E i \in 1..Len(calls) :
           /\ callRemote[calls[i]] = callRemote[lastCall.value]
           /\ callState[calls[i]] >= TerminalState

\* C16: getCall with create true and no matching call below the terminal
\* state creates a call through the endpoint as non-initiator; when the
\* construction throws it returns nothing, raises nothing and leaves the
\* collection as it was.
C16_GetCallCreates ==
    [][\A id \in EndpointIds : \A throws \in BOOLEAN :
          (getCall(id, TRUE, throws) /\ findCall(1, calls, id, 0) = 0) =>
              IF throws
              THEN /\ lastCall'.value = 0
                   /\ ~lastCall'.raised
                   /\ calls' = calls
                   /\ constructed' = constructed
              ELSE /\ lastCall'.made
                   /\ lastCall'.value \in constructed' \ constructed
                   /\ ~initiator(lastCall'.value)
                   /\ ~lastCall'.answered
                   /\ callRemote'[lastCall'.value] = id]_vars

C16_Witness ==
    /\ lastCall.op = "getCall"
    /\ lastCall.failed
    /\ Len(calls) >= 1

C12_GetDirectConnectionIdempotent ==
    [][\A e \in Endpoints :
          /\ \A init, closesNow \in BOOLEAN :
                getDirectConnection(e, init, closesNow) =>
                    /\ lastDC'.value = directConnection'[e]
                    /\ directConnection[e] # 0 =>
                           /\ lastDC'.value = directConnection[e]
                           /\ ~lastDC'.made
                           /\ lastDC'.fired = 0
                           /\ ~lastDC'.accepted
                           /\ ~lastDC'.rejected
                           /\ UNCHANGED <<directConnection, dcMade, closeListeners>>
          /\ (directConnection[e] # 0 /\ directConnection'[e] # directConnection[e]) =>
                \E d \in DCs : fireClose(d)]_vars

C12_Witness ==
    /\ lastDC.op = "getDirectConnection"
    /\ lastDC.value # 0
    /\ ~lastDC.made

\* C13: a "close" fired by a connection getDirectConnection has returned
\* leaves its Endpoint without a reference to it, the listener clearing the
\* reference; the next getDirectConnection on an Endpoint without a
\* reference constructs a connection distinct from every earlier one; the
\* close listener runs at most once per connection.
C13_CloseClearsReference ==
    [][/\ \A d \in DCs :
            /\ fireClose(d) => directConnection'[dcOwner[d]] # d
            /\ (fireClose(d) /\ d \in closeListeners) =>
                   directConnection'[dcOwner[d]] = 0
            /\ closeRuns'[d] <= 1
       /\ \A e \in EndpointIds : \A init, closesNow \in BOOLEAN :
            (getDirectConnection(e, init, closesNow) /\ directConnection[e] = 0) =>
                /\ lastDC'.made
                /\ lastDC'.value \notin 1..dcMade
                /\ lastDC'.value = directConnection'[e]]_vars

C13_Witness ==
    \E d \in DCs :
        /\ closes[d] = 2
        /\ closeRuns[d] = 1
        /\ directConnection[dcOwner[d]] \notin {0, d}

\* C14: a getDirectConnection that constructs a connection as non-initiator
\* publishes exactly one "direct-connection" notification carrying the
\* connection and the Endpoint, rejects the connection if and only if the
\* User has no "direct-connection" listener, and never accepts it.
C14_InboundDirectConnection ==
    [][\A e \in EndpointIds : \A closesNow \in BOOLEAN :
          (getDirectConnection(e, FALSE, closesNow) /\ directConnection[e] = 0) =>
              /\ lastDC'.fired = 1
              /\ lastDC'.event = <<lastDC'.value, e>>
              /\ lastDC'.rejected <=> ~hasListeners("direct-connection")
              /\ ~lastDC'.accepted]_vars

C14_Witness ==
    /\ lastDC.op = "getDirectConnection"
    /\ lastDC.fired = 1
    /\ lastDC.rejected
    /\ dcMade >= 2

\* ------------------------------------------------------------------ claims on presence
\* the priority index of the claim: the place in the list, every other value
\* behind all of the list
Rank(p) ==
    CASE p = "chat" -> 0
      [] p = "available" -> 1
      [] p = "away" -> 2
      [] p = "dnd" -> 3
      [] p = "xa" -> 4
      [] p = "unavailable" -> 5
      [] OTHER -> 6

\* C18: resolvePresence returns "unavailable" for no sessions, and otherwise
\* the presence of one of the sessions, whose priority index is at most the
\* priority index of every session's presence.
C18_ResolvePresenceBest ==
    IF sessions = <<>>
    THEN resolvePresence(sessions) = "unavailable"
    ELSE /\ \E i \in 1..Len(sessions) : sessions[i].presence = resolvePresence(sessions)
         /\ \A i \in 1..Len(sessions) :
               Rank(resolvePresence(sessions)) <= Rank(sessions[i].presence)

C18_Witness ==
    /\ hasResolver
    /\ Len(sessions) >= 2
    /\ Rank(sessions[2].presence) < Rank(sessions[1].presence)
    /\ presence = sessions[2].presence

\* C19: every setPresence publishes exactly one "presence" notification,
\* carrying the presence it has set, changed or not: n calls have published
\* n notifications.
C19_OneNotificationPerSet ==
    /\ Len(presenceFired) = Len(presenceLog)
    /\ presenceFired # <<>> => presenceFired[Len(presenceFired)] = presence

C19_Witness ==
    /\ Len(presenceLog) = 2
    /\ presenceLog[1] = presenceLog[2]
    /\ Len(presenceFired) = 2
    /\ presenceFired[1] = presenceFired[2]

\* the connection id a setPresence call has set
SetConnection(k) == connectionIdOf(presenceLog[k].connectionId)

\* C20: on an Endpoint the sessions hold one entry for each connection id
\* ever set and no other, each with the presence set last for it, and
\* getPresence() is resolvePresence of these sessions and the value of the
\* last "presence" notification.
C20_PresenceFromLatestSessions ==
    hasResolver =>
        /\ \A k \in 1..Len(presenceLog) :
              \E i \in 1..Len(sessions) : sessions[i].connectionId = SetConnection(k)
        /\ \A i, j \in 1..Len(sessions) :
              sessions[i].connectionId = sessions[j].connectionId => i = j
        /\ \A i \in 1..Len(sessions) :
              \E k \in 1..Len(presenceLog) :
                  /\ SetConnection(k) = sessions[i].connectionId
                  /\ presenceOf(presenceLog[k].presence) = sessions[i].presence
                  /\ \A l \in (k + 1)..Len(presenceLog) :
                        SetConnection(l) # sessions[i].connectionId
        /\ getPresence = resolvePresence(sessions)
        /\ presenceFired # <<>> => getPresence = presenceFired[Len(presenceFired)]

C20_Witness ==
    /\ hasResolver
    /\ Len(presenceLog) = 3
    /\ Len(sessions) = 2
    /\ SetConnection(1) = SetConnection(3)
    /\ presenceOf(presenceLog[1].presence) # presenceOf(presenceLog[3].presence)
    /\ getPresence = presenceOf(presenceLog[3].presence)

\* ------------------------------------------------------------------ claims on LocalMedia start and stop
\* C21: stop() on an instance without a stream changes no count, stops no
\* stream and fires no "stop"; stop() on an instance with a stream takes
\* exactly 1 off the count of that stream, clears the stream reference and
\* fires exactly one "stop".
C21_StopIdempotent ==
    [][\A i \in Inst :
          stop(i) =>
              IF stream[i] = 0
              THEN UNCHANGED <<mediaStreams, respokeStreams, stream, stopFired>>
              ELSE /\ mediaStreams[stream[i]].numPc.kind = "number"
                   /\ mediaStreams'[stream[i]].numPc =
                          Num(mediaStreams[stream[i]].numPc.val - 1)
                   /\ stream'[i] = 0
                   /\ stopFired'[i] = stopFired[i] + 1]_vars

\* every start() of the instance has led to an "allow" and nothing is pending
AllCaptured(i) == nStart[i] >= 1 /\ allowFired[i] = nStart[i] /\ Quiescent(i)

\* C22: no "requesting-media" is fired once the capture requests of the
\* instance have completed successfully.
C22_NoRequestingMediaAfterAllow ==
    [][\A i \in Inst : \A t \in 1..MaxStarts :
          delayPermissionsRequest(i, t) => ~AllCaptured(i)]_vars

\* the one capture request of the instance has failed
CaptureFailed(i) ==
    /\ nStart[i] = 1
    /\ gumCalls[i] = 1
    /\ pendingGUM[i] = 0
    /\ deferred[i] = "rejected"
    /\ allowFired[i] = 0

\* C23: no "requesting-media" is fired after the capture request has
\* failed, and the start promise is rejected with "Permission denied." for
\* error code 1 and with "Unknown." for any other.
C23_FailureCancelsTimer ==
    [][\A i \in Inst :
          /\ \A t \in 1..MaxStarts :
                delayPermissionsRequest(i, t) => ~CaptureFailed(i)
          /\ \A code \in ErrorCodes :
                (onUserMediaError(i, code) /\ deferred[i] = "pending") =>
                    /\ deferred'[i] = "rejected"
                    /\ rejectReason'[i] =
                          IF code = 1
                          THEN "Error getting user media: Permission denied."
                          ELSE "Error getting user media: Unknown."]_vars

\* C24: start() on a temporary instance rejects the start promise, issues
\* no capture request, arms no timer, leaves the cache as it was and the
\* stream null, however often it is called.
C24_TemporaryNeverCaptures ==
    [][\A i \in Inst :
          (start(i) /\ temporary[i]) =>
              /\ deferred'[i] = "rejected"
              /\ stream'[i] = 0
              /\ UNCHANGED <<gumCalls, pendingGUM, pendingChoose, allowTimer,
                             armedTimers, respokeStreams, mediaStreams, stream>>]_vars

C24_Witness ==
    \E i \in Inst :
        /\ temporary[i]
        /\ nStart[i] = 2
        /\ deferred[i] = "rejected"
        /\ respokeStreams # <<>>

\* C25: start() on an instance that is not temporary and has no constraints
\* rejects the start promise, issues no capture request, arms no timer and
\* leaves the cache as it was.
C25_NoConstraintsFails ==
    [][\A i \in Inst :
          (start(i) /\ ~temporary[i] /\ constraints[i] = 0) =>
              /\ deferred'[i] = "rejected"
              /\ UNCHANGED <<gumCalls, pendingGUM, pendingChoose, allowTimer,
                             armedTimers, respokeStreams, mediaStreams, stream>>]_vars

C25_Witness ==
    \E i \in Inst :
        /\ ~temporary[i]
        /\ constraints[i] = 0
        /\ nStart[i] >= 1
        /\ rejectReason[i] = "No constraints."
        /\ respokeStreams # <<>>

\* C29: an instance that has stopped or failed holds no stream again, and
\* an instance holds a stream only after a start().
C29_InstanceStateMachine ==
    \A i \in Inst :
        /\ (stopFired[i] >= 1 \/ deferred[i] = "rejected") => stream[i] = 0
        /\ stream[i] # 0 => nStart[i] >= 1

\* ------------------------------------------------------------------ claims on Endpoint.sendSignal
\* C26: Endpoint.sendSignal called without a 'signal' parameter fails before
\* any I/O: the promise it returns is rejected and nothing is handed to the
\* signaling transport.
C26_SendSignalValidates ==
    [][\A e \in EndpointIds : \A signal \in Payloads : \A connectionId \in {0, 1} :
          (signalMissing(signal) /\ sendSignal(e, signal, connectionId))
          => /\ promises'[Len(promises')].state = "rejected"
             /\ transport' = transport]_vars

\* ------------------------------------------------------------------ claims on mute and capabilities
\* C27: the mute operations are idempotent on an instance with a live stream:
\* after muteVideo() a second muteVideo() in a row returns early, and so for
\* unmuteVideo(), muteAudio() and unmuteAudio(); a call that finds the media
\* in the state asked for changes no track and fires no "mute" notification.
C27_MuteIdempotent ==
    [][\A i \in Inst : stream[i] # 0 =>
          /\ muteVideo(i) => returnsEarly(i, "video", TRUE)'
          /\ unmuteVideo(i) => returnsEarly(i, "video", FALSE)'
          /\ muteAudio(i) => returnsEarly(i, "audio", TRUE)'
          /\ unmuteAudio(i) => returnsEarly(i, "audio", FALSE)'
          /\ ( \/ muteVideo(i) /\ isVideoMuted(i) = "true"
               \/ unmuteVideo(i) /\ isVideoMuted(i) = "false"
               \/ muteAudio(i) /\ isAudioMuted(i) = "true"
               \/ unmuteAudio(i) /\ isAudioMuted(i) = "false" )
             => UNCHANGED <<mediaStreams, muteFired>>]_vars

C30_CapabilitiesFallBack ==
    \A i \in Inst : stream[i] = 0 =>
        IF lastParsed[i].set
        THEN /\ hasVideo(i) = lastParsed[i].video
             /\ hasAudio(i) = lastParsed[i].audio
        ELSE constraints[i] # 0 =>
                /\ hasVideo(i) = constraintsHasVideo(cons[constraints[i]])
                /\ hasAudio(i) = constraintsHasAudio(cons[constraints[i]])

\* ------------------------------------------------------------------ claims on mute effects
\* the instance holds a stream with a track of the type
hasTrack(i, type) ==
    /\ stream[i] # 0
    /\ IF type = "video" THEN videoTracks(mediaStreams[stream[i]].kind) > 0
       ELSE audioTracks(mediaStreams[stream[i]].kind) > 0

isMuted(i, type) == IF type = "video" THEN isVideoMuted(i) ELSE isAudioMuted(i)

\* what one call asking for muted does on an instance with a track of the type
MuteEffect(i, type, muted) ==
    /\ isMuted(i, type)' = (IF muted THEN "true" ELSE "false")
    /\ ~returnsEarly(i, type, muted) =>
          /\ mediaStreams' =
                IF type = "video"
                THEN [mediaStreams EXCEPT ![stream[i]].videoEnabled = ~muted]
                ELSE [mediaStreams EXCEPT ![stream[i]].audioEnabled = ~muted]
          /\ muteFired' = muteFired + 1
          /\ lastMute'.event = <<type, muted>>

C38_MuteWithoutTrackSilent ==
    [][\A i \in Inst : \A type \in {"video", "audio"} :
          ( /\ ~hasTrack(i, type)
            /\ IF type = "video" THEN muteVideo(i) \/ unmuteVideo(i)
               ELSE muteAudio(i) \/ unmuteAudio(i) )
          => /\ lastMute'.outcome = "returned"
             /\ UNCHANGED <<mediaStreams, muteFired>>]_vars

\* C39: a mute operation of one instance leaves isAudioMuted() and
\* isVideoMuted() of every other instance unchanged.
C39_MuteIsPerInstance ==
    [][\A i \in Inst : \A j \in Inst \ {i} :
          (muteVideo(i) \/ unmuteVideo(i) \/ muteAudio(i) \/ unmuteAudio(i))
          => /\ isVideoMuted(j)' = isVideoMuted(j)
             /\ isAudioMuted(j)' = isAudioMuted(j)]_vars

\* ------------------------------------------------------------------ claims on the cache at rest
\* C35: once no instance holds a stream and no capture request is pending,
\* the global stream cache is empty and every stream the engine delivered
\* has been stopped.
C35_NothingLeftAtRest ==
    (\A i \in Inst : stream[i] = 0 /\ Quiescent(i))
    => /\ respokeStreams = <<>>
       /\ \A s \in 1..Len(mediaStreams) : mediaStreams[s].stopped

\* ------------------------------------------------------------------ claims on end of stream
\* C32: when the stream of a cache entry ends, every instance holding that
\* stream is stopped (its stream reference cleared, one "stop" notification
\* fired for it) and afterwards the cache holds no entry for the stream.
C32_EndedStopsHolders ==
    [][\A s \in 1..Len(mediaStreams) : \A order \in Orders(mediaStreams[s].listeners) :
          (s \in CachedStreams /\ streamEnded(s, order))
          => /\ \A i \in Holders(s) : /\ stream'[i] = 0
                                      /\ stopFired'[i] = stopFired[i] + 1
             /\ s \notin CachedStreams']_vars

\* ------------------------------------------------------------------ claims on the frame of hangup and close
Others(cs, c) == SelectSeq(cs, LAMBDA x : x # c)

\* C36: when the hangupListener of a call runs, every other call of the
\* active-call collection is still in the collection afterwards, in the
\* same order.
C36_HangupKeepsOtherCalls ==
    [][\A c \in CallObjs :
          (fireHangup(c) /\ c \in hangupListeners) =>
              Others(calls', c) = Others(calls, c)]_vars

\* C37: a connection getDirectConnection has rejected for lack of a
\* "direct-connection" listener is not the Endpoint's cached connection
\* once it has fired "close", during reject() or later, and the next
\* getDirectConnection on that Endpoint returns another connection.
C37_RejectedNotCached ==
    [][/\ (lastDC'.rejected /\ closes'[lastDC'.value] >= 1) =>
              directConnection'[dcOwner'[lastDC'.value]] # lastDC'.value
       /\ \A e \in EndpointIds : \A init, closesNow \in BOOLEAN :
              ( /\ getDirectConnection(e, init, closesNow)
                /\ lastDC.rejected
                /\ dcOwner[lastDC.value] = e
                /\ closes[lastDC.value] >= 1 )
              => lastDC'.value # lastDC.value]_vars

\* ------------------------------------------------------------------ claims on the SignalingChannel
OpenOrClose(log) == SelectSeq(log, LAMBDA c : c \in {"open", "close"})

\* C40: after any sequence of open(), close() and send() calls getState() is
\* 'new' when neither open() nor close() was called and otherwise 'open' or
\* 'closed' after the most recent of the two; isOpen() is true exactly when
\* getState() is 'open'; send() leaves the state as it was.
C40_StateFollowsLastCall ==
    [][/\ getState' = IF OpenOrClose(channelCalls') = <<>> THEN "new"
                      ELSE IF OpenOrClose(channelCalls')[Len(OpenOrClose(channelCalls'))] = "open"
                      THEN "open"
                      ELSE "closed"
       /\ isOpen(state)' <=> getState' = "open"
       /\ send => getState' = getState]_vars

\* a closed channel was opened again, and a send followed
C40_Witness ==
    /\ Len(channelCalls) = 4
    /\ channelCalls[1] = "open"
    /\ channelCalls[2] = "close"
    /\ channelCalls[3] = "open"
    /\ channelCalls[4] = "send"
    /\ isOpen(state)

\* ------------------------------------------------------------------ claims on User.setPresence
\* C34: User.setPresence hands the presence to the signaling channel and
\* leaves the local presence alone; while the request is pending or when it
\* fails getPresence() is unchanged and no "presence" notification is
\* fired; on success getPresence() is the value sent, one "presence"
\* notification is fired and the caller's onSuccess runs after it.
C34_PresenceAfterTransport ==
    [][/\ \A connectionId \in {"", "c1"} : \A p \in UserPresences :
              User_setPresence(connectionId, p) =>
                  /\ transport'[Len(transport')].presence = presenceOf(p)
                  /\ UNCHANGED <<presence, presenceFired, handlers>>
       /\ \A k \in 1..MaxSets :
              /\ sendPresenceDone(k, "failure") =>
                     /\ UNCHANGED <<presence, presenceFired>>
                     /\ handlers'[Len(handlers')].handler = "onError"
              /\ sendPresenceDone(k, "success") =>
                     /\ getPresence' = transport[k].presence
                     /\ presenceFired' = Append(presenceFired, transport[k].presence)
                     /\ handlers'[Len(handlers')] =
                            [request |-> k, handler |-> "onSuccess",
                             fired |-> Len(presenceFired) + 1]
       /\ (presence' # presence \/ presenceFired' # presenceFired) =>
              \E k \in 1..MaxSets : sendPresenceDone(k, "success")]_vars

\* one request failed, a later one succeeded and a third is still pending
\* with another value
C34_Witness ==
    /\ Len(transport) = 3
    /\ transport[1].state = "failure"
    /\ transport[2].state = "success"
    /\ transport[3].state = "pending"
    /\ getPresence = transport[2].presence
    /\ getPresence # transport[3].presence
    /\ Len(presenceFired) = 1

\* ------------------------------------------------------------------ claims on the signaling callbacks
Forwarded == SelectSeq(invoked, LAMBDA v : v.signal # "report")

Method(signal) ==
    CASE signal \in {"offer", "answer"} -> "sendSDP"
      [] signal = "connected" -> "sendConnected"
      [] signal = "candidate" -> "sendCandidate"
      [] signal = "terminate" -> "sendBye"

\* C33: the signaling channel has received one request for each invocation
\* of a forwarding callback, in the order of the invocations: sendSDP with
\* the type for offer and answer, sendConnected, sendCandidate and sendBye
\* for the others; the target is 'call' for a callback injected by
\* Endpoint.call and 'directConnection' for one injected by
\* getDirectConnection, and the recipient is the Endpoint that injected it.
C33_CallbacksForward ==
    /\ Len(transport) = Len(Forwarded)
    /\ \A k \in 1..Len(Forwarded) :
           /\ transport[k].method = Method(Forwarded[k].signal)
           /\ Forwarded[k].signal \in {"offer", "answer"} =>
                  transport[k].type = Forwarded[k].signal
           /\ transport[k].target = Forwarded[k].kind
           /\ transport[k].recipient =
                  IF Forwarded[k].kind = "call"
                  THEN callRemote[Forwarded[k].session]
                  ELSE dcOwner[Forwarded[k].session]

\* a call sent its offer and then a direct connection of another Endpoint
\* its answer
C33_Witness ==
    /\ Len(invoked) = 2
    /\ invoked[1].kind = "call" /\ invoked[1].signal = "offer"
    /\ invoked[2].kind = "directConnection" /\ invoked[2].signal = "answer"
    /\ Len(transport) = 2
    /\ transport[1].target = "call"
    /\ transport[2].target = "directConnection"
    /\ transport[1].recipient # transport[2].recipient
====
